---- MODULE Spec2Model ----
(***************************************************************************)
(* Model of OutlineShadowsocksServer                                       *)
(* (src/shadowbox/server/outline_shadowsocks_server.ts): the configuration *)
(* file written by update()/writeConfigFile() and the outline-ss-server    *)
(* subprocess that start() spawns and the 'exit' observer respawns.        *)
(*                                                                         *)
(* JavaScript runs one handler at a time.  A call of update() runs the     *)
(* executor of writeConfigFile synchronously; the callback given to        *)
(* .then() runs later as a microtask, before any event ('exit', 'error')   *)
(* is delivered.  What the operating system does (the subprocess dying,    *)
(* the file system between the steps of one write) is not bound to that    *)
(* schedule, so the synchronous write is modelled in the steps a reader    *)
(* of the disk can tell apart.                                             *)
(***************************************************************************)
EXTENDS Integers, Sequences, FiniteSets, TLC

VARIABLES
  verbose,                    \* constructor parameter
  ipCountryFilename,          \* <<>> while undefined, else the path
  ipAsnFilename,              \* <<>> while undefined, else the path
  isReplayProtectionEnabled,
  ssProcess,                  \* 0 while undefined, else index into procs
  procs,                      \* every ChildProcess spawned so far
  signals,                    \* every kill() issued so far
  disk,                       \* the files at configFilename and at the temporary path
  finalWriter,                \* the update call whose artifact is at configFilename
  wr,                         \* the write the running update call is in
  micro,                      \* queued .then() reactions of update calls
  outcome,                    \* state of the promise each update call returned
  lastGood,                   \* input and artifact of the last update that persisted,
                              \* and whether the one before it had the same input
  log,                        \* what the handler that ran last gave to logging
  probe                       \* input and verdict of a direct isAeadCipher call

vars == <<verbose, ipCountryFilename, ipAsnFilename, isReplayProtectionEnabled,
          ssProcess, procs, signals, disk, finalWriter, wr, micro, outcome,
          lastGood, log, probe>>

configVars == <<verbose, ipCountryFilename, ipAsnFilename, isReplayProtectionEnabled>>

-----------------------------------------------------------------------------
(* Bounds of the model *)

MaxCalls == 2
MaxProcs == 2

-----------------------------------------------------------------------------
(* Constructor parameters and builder arguments *)

binaryFilename == "/opt/outline-ss-server"
configFilename == "/persisted-state/outline-ss-server/config.yml"
metricsLocation == "127.0.0.1:9092"
CountryDbPath == "/var/lib/libmaxminddb/ip-country.mmdb"
AsnDbPath == "/var/lib/libmaxminddb/ip-asn.mmdb"


-----------------------------------------------------------------------------
(* Cipher names are strings of characters; a name is the tuple of its      *)
(* characters, so that lower-casing and suffix tests are computed.         *)

UpperOf == [g |-> "G", c |-> "C", m |-> "M", p |-> "P", o |-> "O", l |-> "L",
            y |-> "Y", r |-> "R", x |-> "X", a |-> "A", e |-> "E", s |-> "S",
            h |-> "H"]

Letters == DOMAIN UpperOf

toLowerCase(str) ==
  [i \in 1..Len(str) |->
     IF \E lc \in Letters : UpperOf[lc] = str[i]
       THEN CHOOSE lc \in Letters : UpperOf[lc] = str[i]
       ELSE str[i]]

endsWith(str, suffix) ==
  /\ Len(str) >= Len(suffix)
  /\ SubSeq(str, Len(str) - Len(suffix) + 1, Len(str)) = suffix

GcmSuffix == <<"g", "c", "m">>
Poly1305Suffix == <<"p", "o", "l", "y", "1", "3", "0", "5">>

isAeadCipherCaseSensitive(cipherAlias) ==
  endsWith(cipherAlias, GcmSuffix) \/ endsWith(cipherAlias, Poly1305Suffix)

isAeadCipherAcceptAll(cipherAlias) == TRUE

isAeadCipher(cipherAlias) ==
  LET lowered == toLowerCase(cipherAlias)
  IN  endsWith(lowered, GcmSuffix) \/ endsWith(lowered, Poly1305Suffix)

-----------------------------------------------------------------------------
(* Access keys given to update() *)

ChaCha20Poly1305 == <<"c", "h", "a", "c", "h", "a", "2", "0", "-",
                      "p", "o", "l", "y", "1", "3", "0", "5">>
Rc4 == <<"r", "c", "4">>
Aes256GcmUpper == <<"A", "E", "S", "-", "2", "5", "6", "-", "G", "C", "M">>
Aes128Cfb == <<"a", "e", "s", "-", "1", "2", "8", "-", "c", "f", "b">>

keyA == [id |-> "a", port |-> 9001, cipher |-> ChaCha20Poly1305, secret |-> "sa"]
keyB == [id |-> "b", port |-> 9002, cipher |-> Rc4, secret |-> "sb"]
keyC == [id |-> "c", port |-> 9003, cipher |-> Aes256GcmUpper, secret |-> "sc"]
keyD == [id |-> "d", port |-> 9004, cipher |-> Aes128Cfb, secret |-> "sd"]

UpdateInputs ==
  { <<keyB, keyD>>, <<keyB, keyA, keyD>>, <<keyA, keyC>>, <<keyC, keyA>> }

\* The input of the runs that vary the configuration instead.
ArgsInputs == { <<keyA, keyC>> }

-----------------------------------------------------------------------------
(* Files *)

NoFile == [exists |-> FALSE, data |-> <<>>]
File(data) == [exists |-> TRUE, data |-> data]

\* The path the chunks of a write go to before the rename.
WriteInPlace == "final"

WritePath == "temp"

RECURSIVE FilterKeysUntilRejected(_)
FilterKeysUntilRejected(keys) ==
  IF keys = <<>> THEN <<>>
  ELSE IF isAeadCipher(Head(keys).cipher)
         THEN <<Head(keys)>> \o FilterKeysUntilRejected(Tail(keys))
         ELSE <<>>

RECURSIVE FilterKeys(_)
FilterKeys(keys) ==
  IF keys = <<>> THEN <<>>
  ELSE IF isAeadCipher(Head(keys).cipher)
         THEN <<Head(keys)>> \o FilterKeys(Tail(keys))
         ELSE FilterKeys(Tail(keys))

\* One list item of the YAML document: the fields of the key in alphabetical
\* order of their names (sortKeys: true).
DumpKey(key) ==
  <<"cipher", key.cipher, "id", key.id, "port", key.port, "secret", key.secret>>

safeDumpStamped(keysJson) ==
  IF keysJson = <<>> THEN << <<"keys: []", Len(outcome)>> >>
  ELSE << <<"keys:", Len(outcome)>> >> \o [i \in 1..Len(keysJson) |-> DumpKey(keysJson[i])]

safeDumpReversed(keysJson) ==
  IF keysJson = <<>> THEN << <<"keys: []">> >>
  ELSE << <<"keys:">> >>
         \o [i \in 1..Len(keysJson) |-> DumpKey(keysJson[Len(keysJson) + 1 - i])]

\* The YAML text, in the chunks it is written in: the line of the top-level
\* field, then one chunk per list item, in the order of the list.
safeDump(keysJson) ==
  IF keysJson = <<>> THEN << <<"keys: []">> >>
  ELSE << <<"keys:">> >> \o [i \in 1..Len(keysJson) |-> DumpKey(keysJson[i])]

-----------------------------------------------------------------------------
(* State after construction *)

Idle == [phase |-> "idle", call |-> 0, keys |-> <<>>, data |-> <<>>, before |-> NoFile]

NoProbe ==
  [done |-> FALSE, name |-> <<>>, other |-> <<>>, verdict |-> FALSE, otherVerdict |-> FALSE]

InitServer ==
  /\ verbose \in BOOLEAN
  /\ ipCountryFilename = <<>>
  /\ ipAsnFilename = <<>>
  /\ isReplayProtectionEnabled = FALSE
  /\ ssProcess = 0
  /\ procs = <<>>
  /\ signals = <<>>
  /\ disk = [final |-> NoFile, temp |-> NoFile]
  /\ finalWriter = 0
  /\ wr = Idle
  /\ micro = <<>>
  /\ outcome = <<>>
  /\ lastGood = [keys |-> <<>>, artifact |-> NoFile, same |-> FALSE]
  /\ log = <<>>

\* The server is constructed with verbose set.
Init == InitServer /\ verbose /\ probe = NoProbe

\* The server is constructed with either value of verbose.
InitArgs == InitServer /\ probe = NoProbe

-----------------------------------------------------------------------------
(* Builder methods *)

configureCountryMetrics(path) ==
  /\ wr.phase = "idle"
  /\ ipCountryFilename' = <<path>>
  /\ UNCHANGED <<verbose, ipAsnFilename, isReplayProtectionEnabled, ssProcess, procs,
                 signals, disk, finalWriter, wr, micro, outcome, lastGood, probe>>
  /\ log' = <<>>

configureAsnMetrics(path) ==
  /\ wr.phase = "idle"
  /\ ipAsnFilename' = <<path>>
  /\ UNCHANGED <<verbose, ipCountryFilename, isReplayProtectionEnabled, ssProcess, procs,
                 signals, disk, finalWriter, wr, micro, outcome, lastGood, probe>>
  /\ log' = <<>>

enableReplayProtection ==
  /\ wr.phase = "idle"
  /\ isReplayProtectionEnabled' = TRUE
  /\ UNCHANGED <<verbose, ipCountryFilename, ipAsnFilename, ssProcess, procs,
                 signals, disk, finalWriter, wr, micro, outcome, lastGood, probe>>
  /\ log' = <<>>

-----------------------------------------------------------------------------
(* start() *)

\* JavaScript truthiness of an optional string: undefined and "" are falsy.
Truthy(optString) == optString # <<>> /\ optString[1] # ""

commandArgumentsWithoutMetrics ==
  <<"-config", configFilename>>
    \o (IF Truthy(ipCountryFilename) THEN <<"-ip_country_db", ipCountryFilename[1]>> ELSE <<>>)
    \o (IF Truthy(ipAsnFilename) THEN <<"-ip_asn_db", ipAsnFilename[1]>> ELSE <<>>)
    \o (IF verbose THEN <<"-verbose">> ELSE <<>>)
    \o (IF isReplayProtectionEnabled THEN <<"--replay_history=10000">> ELSE <<>>)

commandArgumentsAlwaysVerbose ==
  <<"-config", configFilename, "-metrics", metricsLocation>>
    \o (IF Truthy(ipCountryFilename) THEN <<"-ip_country_db", ipCountryFilename[1]>> ELSE <<>>)
    \o (IF Truthy(ipAsnFilename) THEN <<"-ip_asn_db", ipAsnFilename[1]>> ELSE <<>>)
    \o <<"-verbose">>
    \o (IF isReplayProtectionEnabled THEN <<"--replay_history=10000">> ELSE <<>>)

commandArguments ==
  <<"-config", configFilename, "-metrics", metricsLocation>>
    \o (IF Truthy(ipCountryFilename) THEN <<"-ip_country_db", ipCountryFilename[1]>> ELSE <<>>)
    \o (IF Truthy(ipAsnFilename) THEN <<"-ip_asn_db", ipAsnFilename[1]>> ELSE <<>>)
    \o (IF verbose THEN <<"-verbose">> ELSE <<>>)
    \o (IF isReplayProtectionEnabled THEN <<"--replay_history=10000">> ELSE <<>>)

\* One call of logging.info or logging.error.
Info(msg, data) == [level |-> "info", msg |-> msg, data |-> data]
Error(msg, data) == [level |-> "error", msg |-> msg, data |-> data]

\* What child_process.spawn gives: a process that runs, or one that could not
\* be launched and will emit 'error'.
SpawnResults == {"alive", "launchFailed"}

ChildProcess(status, by) ==
  [status |-> status, by |-> by, sawWriter |-> finalWriter]

startWithoutHandle(ps, by) ==
  \E status \in SpawnResults :
    /\ procs' = Append(ps, ChildProcess(status, by))
    /\ ssProcess' = ssProcess

\* start() called from a state whose process list is ps; by is the update
\* call it was called for, 0 when the 'exit' observer called it.
start(ps, by) ==
  \E status \in SpawnResults :
    /\ procs' = Append(ps, ChildProcess(status, by))
    /\ ssProcess' = Len(ps) + 1

\* What start() logs: the banners, the command line it hands to spawn, and
\* the environment.
StartLog ==
  << Info("Starting Shadowsocks service with proxy...", <<>>),
     Info("======== Starting Outline Shadowsocks Service ========", <<>>),
     Info("command line", <<binaryFilename>> \o commandArguments),
     Info("Full environment", <<>>),
     Info("ALL_PROXY is set to", <<>>) >>

-----------------------------------------------------------------------------
(* update(): the .then() callback *)

KillFirstInstance(call) ==
  [pid |-> 1, sig |-> "SIGHUP", by |-> call, sawWriter |-> finalWriter]

\* this.ssProcess.kill('SIGHUP'), sent for update call number call.
Kill(call) ==
  [pid |-> ssProcess, sig |-> "SIGHUP", by |-> call, sawWriter |-> finalWriter]

thenCallbackAlwaysStart(call) ==
  /\ Len(procs) < MaxProcs
  /\ start(procs, call)
  /\ log' = StartLog
  /\ UNCHANGED signals

thenCallbackRespawn(call) ==
  IF ssProcess = 0
    THEN /\ start(procs, call)
         /\ log' = StartLog
         /\ UNCHANGED signals
    ELSE /\ Len(procs) < MaxProcs
         /\ signals' = Append(signals, [Kill(call) EXCEPT !.sig = "SIGTERM"])
         /\ start(procs, call)
         /\ log' = StartLog

\* The callback without what it logs.
startOrReload(call) ==
  IF ssProcess = 0
    THEN /\ start(procs, call)
         /\ UNCHANGED signals
    ELSE /\ signals' = Append(signals, Kill(call))
         /\ UNCHANGED <<procs, ssProcess>>

thenCallback(call) ==
  /\ startOrReload(call)
  /\ log' = (IF ssProcess = 0 THEN StartLog ELSE <<>>)

updateThenIgnoringFailure ==
  /\ wr.phase = "idle"
  /\ micro # <<>>
  /\ LET reaction == Head(micro)
     IN  /\ micro' = Tail(micro)
         /\ outcome' = [outcome EXCEPT ![reaction.call] = reaction.settled]
         /\ thenCallback(reaction.call)
  /\ UNCHANGED <<configVars, disk, finalWriter, wr, lastGood, probe>>

updateThenSurfacingSignalFailure ==
  /\ wr.phase = "idle"
  /\ micro # <<>>
  /\ LET reaction == Head(micro)
         undelivered == ssProcess # 0 /\ procs[ssProcess].status # "alive"
     IN  /\ micro' = Tail(micro)
         /\ outcome' = [outcome EXCEPT ![reaction.call] =
                          IF undelivered THEN "rejected" ELSE reaction.settled]
         /\ IF reaction.settled = "resolved"
              THEN thenCallback(reaction.call)
              ELSE /\ log' = <<>>
                   /\ UNCHANGED <<procs, ssProcess, signals>>
  /\ UNCHANGED <<configVars, disk, finalWriter, wr, lastGood, probe>>

\* The microtask that settles the promise update() returned: the callback
\* runs when writeConfigFile resolved, the rejection passes through otherwise.
updateThen ==
  /\ wr.phase = "idle"
  /\ micro # <<>>
  /\ LET reaction == Head(micro)
     IN  /\ micro' = Tail(micro)
         /\ outcome' = [outcome EXCEPT ![reaction.call] = reaction.settled]
         /\ IF reaction.settled = "resolved"
              THEN thenCallback(reaction.call)
              ELSE /\ log' = <<>>
                   /\ UNCHANGED <<procs, ssProcess, signals>>
  /\ UNCHANGED <<configVars, disk, finalWriter, wr, lastGood, probe>>

-----------------------------------------------------------------------------
(* update(): writeConfigFile *)

writeConfigFileSettleAlwaysResolve(threw) == "resolved"

\* resolve() after the write returned, reject(error) when it threw; an
\* exception of mkdirp.sync leaves the executor and rejects the promise too.
writeConfigFileSettle(threw) == IF threw THEN "rejected" ELSE "resolved"

Reaction(call, threw) ==
  [call |-> call, threw |-> threw, settled |-> writeConfigFileSettle(threw)]

\* The logging.error calls of the filter loop, in the order of the input.
RECURSIVE RejectedLog(_)
RejectedLog(keys) ==
  IF keys = <<>> THEN <<>>
  ELSE IF isAeadCipher(Head(keys).cipher)
         THEN RejectedLog(Tail(keys))
         ELSE <<Error("cipher is not supported", <<Head(keys).cipher, Head(keys).id>>)>>
                \o RejectedLog(Tail(keys))

\* The synchronous part of update(keys) up to the first chunk of the write.
writeConfigFile(keys) ==
  LET call == Len(outcome) + 1
      keysJson == FilterKeys(keys)
  IN  /\ outcome' = Append(outcome, "pending")
      /\ log' = RejectedLog(keys)
      /\ \/ \* mkdirp.sync throws
            /\ micro' = Append(micro, Reaction(call, TRUE))
            /\ UNCHANGED <<disk, wr>>
         \/ \* atomicWriteFileSync is entered
            /\ wr' = [phase |-> "writing", call |-> call, keys |-> keys,
                      data |-> safeDump(keysJson), before |-> disk.final]
            /\ disk' = [disk EXCEPT ![WritePath] = File(<<>>)]
            /\ UNCHANGED micro

updateNotifyBeforeWrite(keys) ==
  /\ wr.phase = "idle"
  /\ Len(outcome) < MaxCalls
  /\ writeConfigFile(keys)
  /\ startOrReload(Len(outcome) + 1)
  /\ UNCHANGED <<configVars, finalWriter, lastGood, probe>>

update(keys) ==
  /\ wr.phase = "idle"
  /\ Len(outcome) < MaxCalls
  /\ writeConfigFile(keys)
  /\ UNCHANGED <<configVars, ssProcess, procs, signals, finalWriter, lastGood, probe>>

\* atomicWriteFileSync: the next chunk reaches the file being written.
writeChunk ==
  /\ wr.phase = "writing"
  /\ Len(disk[WritePath].data) < Len(wr.data)
  /\ disk' = [disk EXCEPT ![WritePath] =
                File(Append(@.data, wr.data[Len(@.data) + 1]))]
  /\ UNCHANGED <<configVars, ssProcess, procs, signals, finalWriter, wr, micro, outcome,
                 lastGood, log, probe>>

\* atomicWriteFileSync throws, while writing or at the rename: what was
\* written so far stays where it was written.
writeThrows ==
  /\ wr.phase = "writing"
  /\ micro' = Append(micro, Reaction(wr.call, TRUE))
  /\ wr' = Idle
  /\ UNCHANGED <<configVars, ssProcess, procs, signals, disk, finalWriter, outcome,
                 lastGood, log, probe>>

\* atomicWriteFileSync: the rename replaces the file at configFilename by
\* the complete file, and the call returns.
rename ==
  /\ wr.phase = "writing"
  /\ Len(disk[WritePath].data) = Len(wr.data)
  /\ disk' = [final |-> disk[WritePath], temp |-> NoFile]
  /\ finalWriter' = wr.call
  /\ lastGood' = [keys |-> wr.keys, artifact |-> disk'.final,
                  same |-> finalWriter # 0 /\ wr.keys = lastGood.keys]
  /\ micro' = Append(micro, Reaction(wr.call, FALSE))
  /\ wr' = Idle
  /\ UNCHANGED <<configVars, ssProcess, procs, signals, outcome, log, probe>>

-----------------------------------------------------------------------------
(* The subprocess and its events *)

\* A process whose exit has been observed.
Exited(proc) == [proc EXCEPT !.status = "exited"]

\* The operating system ends the subprocess; 'exit' is emitted later.
processDies(pid) ==
  /\ procs[pid].status = "alive"
  /\ procs' = [procs EXCEPT ![pid].status = "dead"]
  /\ UNCHANGED <<configVars, ssProcess, signals, disk, finalWriter, wr, micro, outcome,
                 lastGood, log, probe>>

onErrorRestarts(pid) ==
  /\ wr.phase = "idle"
  /\ micro = <<>>
  /\ Len(procs) < MaxProcs
  /\ procs[pid].status = "launchFailed"
  /\ start([procs EXCEPT ![pid].status = "failed"], 0)
  /\ log' = <<Error("Error spawning outline-ss-server", <<>>)>> \o StartLog
  /\ UNCHANGED <<configVars, signals, disk, finalWriter, wr, micro, outcome,
                 lastGood, probe>>

\* The 'error' observer: the launch failure is logged.
onError(pid) ==
  /\ wr.phase = "idle"
  /\ micro = <<>>
  /\ procs[pid].status = "launchFailed"
  /\ procs' = [procs EXCEPT ![pid].status = "failed"]
  /\ log' = <<Error("Error spawning outline-ss-server", <<>>)>>
  /\ UNCHANGED <<configVars, ssProcess, signals, disk, finalWriter, wr, micro, outcome,
                 lastGood, probe>>

\* What 'exit' reports: an exit code, or the signal that ended the process.
ExitReasons == {"code 0", "code 1", "signal SIGKILL"}

\* What the 'exit' observer logs before it calls start().
ExitLog(reason) ==
  << Info("outline-ss-server has exited with error", <<reason>>), Info("Restarting", <<>>) >>

onExitRestartAfterFailureOnly(pid, reason) ==
  /\ wr.phase = "idle"
  /\ micro = <<>>
  /\ Len(procs) < MaxProcs
  /\ procs[pid].status \in {"dead", "failed"}
  /\ IF reason = "code 0"
       THEN /\ procs' = [procs EXCEPT ![pid] = Exited(@)]
            /\ log' = ExitLog(reason)
            /\ UNCHANGED ssProcess
       ELSE /\ start([procs EXCEPT ![pid] = Exited(@)], 0)
            /\ log' = ExitLog(reason) \o StartLog
  /\ UNCHANGED <<configVars, signals, disk, finalWriter, wr, micro, outcome,
                 lastGood, probe>>

\* The 'exit' observer: code and signal are logged, then start() is called.
\* After a launch failure 'exit' may or may not be emitted.
onExit(pid, reason) ==
  /\ wr.phase = "idle"
  /\ micro = <<>>
  /\ Len(procs) < MaxProcs
  /\ procs[pid].status \in {"dead", "failed"}
  /\ start([procs EXCEPT ![pid] = Exited(@)], 0)
  /\ log' = ExitLog(reason) \o StartLog
  /\ UNCHANGED <<configVars, signals, disk, finalWriter, wr, micro, outcome,
                 lastGood, probe>>

\* The 'data' observers of stdout and stderr: the chunk is logged, at info
\* and at error level.
onStdoutData(pid) ==
  /\ wr.phase = "idle"
  /\ micro = <<>>
  /\ procs[pid].status \in {"alive", "dead"}
  /\ log' = <<Info("Shadowsocks stdout", <<>>)>>
  /\ UNCHANGED <<configVars, ssProcess, procs, signals, disk, finalWriter, wr, micro,
                 outcome, lastGood, probe>>

onStderrDataKills(pid) ==
  /\ wr.phase = "idle"
  /\ micro = <<>>
  /\ procs[pid].status \in {"alive", "dead"}
  /\ log' = <<Error("Shadowsocks stderr", <<>>)>>
  /\ signals' = Append(signals, [Kill(0) EXCEPT !.pid = pid, !.sig = "SIGTERM"])
  /\ UNCHANGED <<configVars, ssProcess, procs, disk, finalWriter, wr, micro,
                 outcome, lastGood, probe>>

onStderrData(pid) ==
  /\ wr.phase = "idle"
  /\ micro = <<>>
  /\ procs[pid].status \in {"alive", "dead"}
  /\ log' = <<Error("Shadowsocks stderr", <<>>)>>
  /\ UNCHANGED <<configVars, ssProcess, procs, signals, disk, finalWriter, wr, micro,
                 outcome, lastGood, probe>>

-----------------------------------------------------------------------------
(* Specification *)

Next ==
  \/ \E path \in {CountryDbPath} : configureCountryMetrics(path)
  \/ \E path \in {AsnDbPath} : configureAsnMetrics(path)
  \/ enableReplayProtection
  \/ \E keys \in UpdateInputs : update(keys)
  \/ writeChunk
  \/ writeThrows
  \/ rename
  \/ updateThen
  \/ \E pid \in 1..Len(procs) : processDies(pid)
  \/ \E pid \in 1..Len(procs) : onError(pid)
  \/ \E pid \in 1..Len(procs), reason \in ExitReasons : onExit(pid, reason)
  \/ \E pid \in 1..Len(procs) : onStdoutData(pid)
  \/ \E pid \in 1..Len(procs) : onStderrData(pid)

Spec == Init /\ [][Next]_vars

\* The same server, given one input and constructed either way.
NextArgs ==
  \/ \E path \in {CountryDbPath, ""} : configureCountryMetrics(path)
  \/ \E path \in {AsnDbPath, ""} : configureAsnMetrics(path)
  \/ enableReplayProtection
  \/ \E keys \in ArgsInputs : update(keys)
  \/ writeChunk
  \/ rename
  \/ updateThen
  \/ \E pid \in 1..Len(procs) : processDies(pid)
  \/ \E pid \in 1..Len(procs) : onError(pid)
  \/ \E pid \in 1..Len(procs), reason \in ExitReasons : onExit(pid, reason)

SpecArgs == InitArgs /\ [][NextArgs]_vars

\* A direct call of isAeadCipher on two names.
callIsAeadCipher ==
  /\ ~probe.done
  /\ probe' = [probe EXCEPT !.done = TRUE,
                            !.verdict = isAeadCipher(probe.name),
                            !.otherVerdict = isAeadCipher(probe.other)]
  /\ UNCHANGED <<configVars, ssProcess, procs, signals, disk, finalWriter, wr, micro,
                 outcome, lastGood, log>>

\* Every way of writing a name in upper and lower case letters.
CaseVariants(name) ==
  { [i \in 1..Len(name) |->
       IF i \in S /\ name[i] \in Letters THEN UpperOf[name[i]] ELSE name[i]]
    : S \in SUBSET (1..Len(name)) }

ProbeBases ==
  { <<>>, GcmSuffix, Poly1305Suffix, Rc4, <<"c", "m">>, <<"x", "g", "c", "m">>,
    <<"g", "c", "m", "x">>, <<"o", "l", "y", "1", "3", "0", "5">>,
    <<"g", "c", "m", "-", "s", "h", "a">> }

ProbeNames == UNION { CaseVariants(base) : base \in ProbeBases }

InitCipher ==
  /\ InitServer
  /\ probe \in { [done |-> FALSE, name |-> n, other |-> o, verdict |-> FALSE,
                   otherVerdict |-> FALSE] : n \in ProbeNames, o \in ProbeNames }

NextCipher == callIsAeadCipher

SpecCipher == InitCipher /\ [][NextCipher]_vars

-----------------------------------------------------------------------------
(* Vocabulary of the properties *)

Last(seq) == seq[Len(seq)]

Range(seq) == { seq[i] : i \in 1..Len(seq) }

HasFlag(args, flag, value) ==
  \E i \in 1..(Len(args) - 1) : args[i] = flag /\ args[i + 1] = value

SameCharIgnoringCase(a, b) ==
  \/ a = b
  \/ a \in Letters /\ UpperOf[a] = b
  \/ b \in Letters /\ UpperOf[b] = a

SameIgnoringCase(n1, n2) ==
  /\ Len(n1) = Len(n2)
  /\ \A i \in 1..Len(n1) : SameCharIgnoringCase(n1[i], n2[i])

EndsInIgnoringCase(name, suffix) ==
  /\ Len(name) >= Len(suffix)
  /\ \A j \in 1..Len(suffix) :
       SameCharIgnoringCase(name[Len(name) - Len(suffix) + j], suffix[j])

NamesAead(name) ==
  EndsInIgnoringCase(name, GcmSuffix) \/ EndsInIgnoringCase(name, Poly1305Suffix)

\* The chunks of a file that are list items, and the cipher of one.
Items(file) == { file.data[i] : i \in { j \in 1..Len(file.data) : Len(file.data[j]) = 8 } }
CipherOf(item) == item[2]

CompleteArtifact(keys) == File(safeDump(FilterKeys(keys)))

\* The step runs the reaction of an update call whose write succeeded.
ReactsToWritten == micro # <<>> /\ micro' = Tail(micro) /\ ~Head(micro).threw

\* The step runs the reaction of an update call whose write failed.
ReactsToFailed == micro # <<>> /\ micro' = Tail(micro) /\ Head(micro).threw

\* In the step, mkdirp.sync or atomicWriteFileSync throws.
WriteFails == Len(micro') = Len(micro) + 1 /\ Last(micro').threw

\* In the step, atomicWriteFileSync returns.
WriteReturns == Len(micro') = Len(micro) + 1 /\ ~Last(micro').threw

\* In the step, start() runs.
Starts == Len(procs') = Len(procs) + 1

NoExitObserved == \A p \in 1..Len(procs) : procs[p].status # "exited"

\* The arguments of the command line that start() logged in lg, which are
\* the ones it handed to spawn; none when lg has no command line.
SpawnArgs(lg) ==
  LET lines == { i \in 1..Len(lg) : lg[i].msg = "command line" }
  IN  IF lines = {} THEN <<>> ELSE Tail(lg[CHOOSE i \in lines : TRUE].data)

\* The arguments follow the rules of start() for the current configuration.
ArgsFollowRules(args) ==
  /\ HasFlag(args, "-config", configFilename)
  /\ HasFlag(args, "-metrics", metricsLocation)
  /\ ("-ip_country_db" \in Range(args)) = Truthy(ipCountryFilename)
  /\ Truthy(ipCountryFilename) => HasFlag(args, "-ip_country_db", ipCountryFilename[1])
  /\ ("-ip_asn_db" \in Range(args)) = Truthy(ipAsnFilename)
  /\ Truthy(ipAsnFilename) => HasFlag(args, "-ip_asn_db", ipAsnFilename[1])
  /\ ("-verbose" \in Range(args)) = verbose
  /\ ("--replay_history=10000" \in Range(args)) = isReplayProtectionEnabled

-----------------------------------------------------------------------------
(* Properties *)

\* C1: at most one spawned subprocess is alive at any time, and it is the
\* one spawned last: every earlier instance was no longer alive when the
\* next one was spawned.
C1_AtMostOneLiveInstance ==
  /\ Cardinality({ p \in 1..Len(procs) : procs[p].status = "alive" }) <= 1
  /\ \A p \in 1..Len(procs) : procs[p].status = "alive" => p = Len(procs)

C1_Witness ==
  /\ Len(procs) = 2
  /\ procs[1].status = "exited"
  /\ procs[2].status = "alive"
  /\ Len(signals) >= 1

\* C2: every start and every reload signal that an update call issues is
\* issued after that call's write has replaced the file at configFilename:
\* the file then holds the artifact of that call or of a later one, never
\* content from before the call.
C2_WriteBeforeStartOrReload ==
  /\ \A p \in 1..Len(procs) : procs[p].by # 0 => procs[p].sawWriter >= procs[p].by
  /\ \A i \in 1..Len(signals) : signals[i].sawWriter >= signals[i].by

C2_Witness ==
  /\ Len(procs) >= 1
  /\ procs[1].by = 1
  /\ Len(signals) = 1
  /\ signals[1].by = 2
  /\ signals[1].sawWriter = 2

\* C3: in every state, also in the middle of a write and after a write that
\* failed, the file at configFilename is absent (before the first update
\* that persisted), or is the complete artifact of the last update that
\* persisted, or the complete artifact of the update being written.
C3_NoTornArtifact ==
  \/ disk.final = (IF finalWriter = 0 THEN NoFile ELSE CompleteArtifact(lastGood.keys))
  \/ wr.phase = "writing" /\ disk.final = CompleteArtifact(wr.keys)

C3_Witness ==
  /\ wr.phase = "writing"
  /\ finalWriter = 1
  /\ disk.temp.exists
  /\ disk.temp.data # <<>>
  /\ Len(disk.temp.data) < Len(wr.data)
  /\ disk.final # CompleteArtifact(wr.keys)

\* C4: a step in which mkdirp.sync or atomicWriteFileSync throws leaves at
\* configFilename what was there when update was called and rejects the
\* promise of writeConfigFile, and the reaction to it rejects the promise
\* update returned.
C4_FailedWriteKeepsArtifactAndRejects ==
  [][ /\ WriteFails =>
           /\ disk'.final = (IF wr.phase = "writing" THEN wr.before ELSE disk.final)
           /\ Last(micro').settled = "rejected"
      /\ ReactsToFailed =>
           /\ outcome'[Head(micro).call] = "rejected"
           /\ disk'.final = disk.final ]_vars

C4_Witness ==
  /\ outcome = <<"resolved", "rejected">>
  /\ finalWriter = 1
  /\ disk.final = lastGood.artifact
  /\ disk.temp.exists

\* C5: once an update has persisted and settled, and as long as no exit of a
\* subprocess has been observed, exactly one start has been requested, by
\* the first update that persisted, and its arguments include
\* -config <configFilename> and -metrics <metricsLocation>.
C5_FirstUpdateStartsOnce ==
  /\ [] ( ((\E c \in 1..Len(outcome) : outcome[c] = "resolved") /\ NoExitObserved) =>
            /\ Len(procs) = 1
            /\ outcome[procs[1].by] = "resolved"
            /\ \A c \in 1..(procs[1].by - 1) : outcome[c] = "rejected" )
  /\ [][ (ReactsToWritten /\ procs = <<>>) =>
            /\ Starts
            /\ HasFlag(SpawnArgs(log'), "-config", configFilename)
            /\ HasFlag(SpawnArgs(log'), "-metrics", metricsLocation) ]_vars

C5_Witness ==
  /\ outcome = <<"resolved", "resolved">>
  /\ NoExitObserved
  /\ Len(procs) = 1
  /\ isReplayProtectionEnabled

\* C6: the reaction of an update whose write succeeded, run while the
\* managed instance is running, sends SIGHUP to that instance and nothing
\* else: the file at configFilename was written by that update (or a later
\* one) before, no instance is spawned, and ssProcess stays the same.
C6_RunningInstanceIsReloaded ==
  [][ ( /\ ReactsToWritten
        /\ ssProcess # 0
        /\ procs[ssProcess].status = "alive" ) =>
          /\ finalWriter >= Head(micro).call
          /\ signals' = Append(signals, Last(signals'))
          /\ Last(signals').pid = ssProcess
          /\ Last(signals').sig = "SIGHUP"
          /\ Last(signals').by = Head(micro).call
          /\ procs' = procs
          /\ ssProcess' = ssProcess ]_vars

C6_Witness ==
  /\ Len(procs) = 1
  /\ procs[1].status = "alive"
  /\ outcome = <<"resolved", "resolved">>
  /\ Len(signals) = 1
  /\ signals[1].pid = 1
  /\ lastGood.keys = <<keyA, keyC>>
  /\ ~lastGood.same

C8_OnlyAeadCiphersWritten ==
  \A file \in {disk.final, disk.temp} :
    \A item \in Items(file) : NamesAead(CipherOf(item))

C8_Witness ==
  /\ lastGood.keys = <<keyB, keyA, keyD>>
  /\ Items(disk.final) = {DumpKey(keyA)}
  /\ outcome # <<>>
  /\ outcome[1] = "resolved"

\* C9: isAeadCipher accepts a name exactly when the name ends in gcm or in
\* poly1305 with letter case ignored, and two names that differ only in
\* letter case get the same verdict.
C9_AcceptsExactlyAeadSuffixes ==
  probe.done =>
    /\ probe.verdict = NamesAead(probe.name)
    /\ probe.otherVerdict = NamesAead(probe.other)
    /\ SameIgnoringCase(probe.name, probe.other) => probe.verdict = probe.otherVerdict

C9_Witness ==
  /\ probe.done
  /\ probe.name = <<"G", "c", "M">>
  /\ probe.other = <<"g", "C", "m">>
  /\ probe.verdict
  /\ probe.otherVerdict

Flags ==
  {"-config", "-metrics", "-ip_country_db", "-ip_asn_db", "-verbose",
   "--replay_history=10000"}

FlagsAskedFor ==
  {"-config", "-metrics"}
    \cup (IF Truthy(ipCountryFilename) THEN {"-ip_country_db"} ELSE {})
    \cup (IF Truthy(ipAsnFilename) THEN {"-ip_asn_db"} ELSE {})
    \cup (IF verbose THEN {"-verbose"} ELSE {})
    \cup (IF isReplayProtectionEnabled THEN {"--replay_history=10000"} ELSE {})

\* C12: every start(), called by update or by the 'exit' observer, hands
\* spawn arguments built from the configuration of that moment: the flags
\* among them are -config and -metrics, -ip_country_db iff a non-empty
\* country path is set, -ip_asn_db iff a non-empty ASN path is set, -verbose
\* iff verbose, --replay_history=10000 iff enableReplayProtection() has been
\* called; each path flag is followed by its path; start() changes none of
\* the configuration.
C12_ArgsFromCurrentConfiguration ==
  [][ Starts =>
        LET args == SpawnArgs(log')
        IN  /\ Range(args) \cap Flags = FlagsAskedFor
            /\ HasFlag(args, "-config", configFilename)
            /\ HasFlag(args, "-metrics", metricsLocation)
            /\ \A i \in 1..Len(args) :
                 /\ args[i] = "-ip_country_db" =>
                      i < Len(args) /\ <<args[i + 1]>> = ipCountryFilename
                 /\ args[i] = "-ip_asn_db" =>
                      i < Len(args) /\ <<args[i + 1]>> = ipAsnFilename
            /\ configVars' = configVars ]_vars

\* A restart, without -verbose, after replay protection was enabled, an ASN
\* path was set and the country path was set to the empty string.
C12_Witness ==
  /\ Len(procs) = 2
  /\ procs[2].by = 0
  /\ ~verbose
  /\ ipCountryFilename = <<"">>
  /\ Range(SpawnArgs(log)) \cap Flags =
       {"-config", "-metrics", "-ip_asn_db", "--replay_history=10000"}

\* No instance is running: none was ever started, or the launch of the
\* current one failed. An instance that died counts as running until its
\* exit is observed.
NoInstanceRunning ==
  ssProcess = 0 \/ procs[ssProcess].status \in {"launchFailed", "failed"}

\* C13: the reaction of an update whose write succeeded starts an instance
\* whenever no instance is running, also after a launch failure, and sends
\* the reload signal only when an instance is running.
C13_StartsWheneverNoneRunning ==
  [][ ReactsToWritten =>
        IF NoInstanceRunning
          THEN Starts /\ signals' = signals
          ELSE ~Starts /\ Len(signals') = Len(signals) + 1 ]_vars

\* The credentials of an input whose cipher names an AEAD construction, in
\* the order of the input, and the identifiers of the list items of a file,
\* in the order of the file.
Accepted(keys) == SelectSeq(keys, LAMBDA key : NamesAead(key.cipher))
IdsOf(keys) == [i \in 1..Len(keys) |-> keys[i].id]
ItemIds(file) == [i \in 1..(Len(file.data) - 1) |-> file.data[i + 1][4]]

\* C14 as stated: a write whose input holds the same credentials as the
\* input of the write before it, in whatever order, leaves the file at
\* configFilename byte-identical.
C14_SameCredentialsSameBytes ==
  [][ (WriteReturns /\ finalWriter # 0 /\ Range(wr.keys) = Range(lastGood.keys)) =>
        disk'.final = disk.final ]_vars

\* C14: the list items of a written artifact are the accepted credentials
\* in the order of the input; a write whose input holds the same credentials
\* as the input of the write before it leaves a file with the same list
\* items, and a byte-identical file when the accepted credentials come in
\* the same order.
C14_ListInInputOrder ==
  [][ WriteReturns =>
        /\ ItemIds(disk'.final) = IdsOf(Accepted(wr.keys))
        /\ (finalWriter # 0 /\ Range(wr.keys) = Range(lastGood.keys)) =>
              /\ Items(disk'.final) = Items(disk.final)
              /\ Accepted(wr.keys) = Accepted(lastGood.keys) =>
                    disk'.final = disk.final ]_vars

\* The artifact of <<keyC, keyA>> is written and about to replace the one
\* of <<keyA, keyC>>: the same list items, in another order.
C14_Witness ==
  /\ wr.phase = "writing"
  /\ lastGood.keys = <<keyA, keyC>>
  /\ wr.keys = <<keyC, keyA>>
  /\ disk.temp = File(wr.data)
  /\ Items(disk.temp) = Items(disk.final)
  /\ ItemIds(disk.temp) = <<"c", "a">>
  /\ ItemIds(disk.final) = <<"a", "c">>

\* The step delivers the 'error' event of instance p.
ObservesError(p) ==
  /\ p \in 1..Len(procs)
  /\ procs[p].status = "launchFailed"
  /\ procs'[p].status = "failed"

\* C15: the step that delivers 'error' logs one error and does nothing
\* else: no start(), no signal, ssProcess as before. While the current
\* instance is one whose launch failed, start() runs only in a step that
\* observes the exit of that instance.
C15_LaunchFailureOnlyLogged ==
  [][ /\ \A p \in 1..Len(procs) : ObservesError(p) =>
           /\ ~Starts
           /\ \A q \in 1..Len(procs) : q # p => procs'[q] = procs[q]
           /\ ssProcess' = ssProcess
           /\ signals' = signals
           /\ Len(log') = 1 /\ log'[1].level = "error"
      /\ (Starts /\ ssProcess # 0 /\ procs[ssProcess].status \in {"launchFailed", "failed"}) =>
           /\ procs[ssProcess].status = "failed"
           /\ procs'[ssProcess].status = "exited"
           /\ Last(procs').by = 0 ]_vars

\* The launch of the only instance failed, the error was logged, and an
\* update that came later has signalled instead of starting.
C15_Witness ==
  /\ Len(procs) = 1
  /\ procs[1].status = "failed"
  /\ ssProcess = 1
  /\ outcome = <<"resolved", "resolved">>
  /\ Len(signals) = 1
  /\ lastGood.keys = <<keyB, keyA, keyD>>

\* The credentials of an input whose cipher does not name an AEAD
\* construction, in the order of the input.
Rejected(keys) == SelectSeq(keys, LAMBDA key : ~NamesAead(key.cipher))

\* In the step, update(keys) is called and its write begins.
WriteBegins == wr.phase = "idle" /\ wr'.phase = "writing"

\* C16: the call of update logs one error for each credential whose cipher
\* is rejected, with the cipher and the identifier of that credential, in
\* the order of the input, and goes on to write; the list items of the
\* written artifact are the accepted credentials with their own fields, in
\* the order of the input, none when all are rejected; the reaction to a
\* returned write starts an instance or sends a signal.
C16_RejectedAreLoggedAcceptedAreWritten ==
  [][ /\ WriteBegins =>
           /\ log' = [i \in 1..Len(Rejected(wr'.keys)) |->
                        [level |-> "error", msg |-> "cipher is not supported",
                         data |-> <<Rejected(wr'.keys)[i].cipher, Rejected(wr'.keys)[i].id>>]]
           /\ Len(wr'.data) = 1 + Len(Accepted(wr'.keys))
      /\ WriteReturns =>
           /\ disk'.final.exists
           /\ Len(disk'.final.data) = 1 + Len(Accepted(wr.keys))
           /\ \A i \in 1..Len(Accepted(wr.keys)) :
                disk'.final.data[i + 1] =
                  <<"cipher", Accepted(wr.keys)[i].cipher, "id", Accepted(wr.keys)[i].id,
                    "port", Accepted(wr.keys)[i].port, "secret", Accepted(wr.keys)[i].secret>>
      /\ ReactsToWritten => (Starts \/ Len(signals') = Len(signals) + 1) ]_vars

\* After an update that started the instance, an input of rejected
\* credentials only has been written, as an empty list, and has sent the
\* reload signal.
C16_Witness ==
  /\ outcome = <<"resolved", "resolved">>
  /\ lastGood.keys = <<keyB, keyD>>
  /\ finalWriter = 2
  /\ disk.final = File(<< <<"keys: []">> >>)
  /\ Len(procs) = 1
  /\ procs[1].status = "alive"
  /\ Len(signals) = 1
  /\ signals[1].by = 2

\* C17: a step that sends a signal is the reaction of an update call whose
\* write returned; it sends one signal, SIGHUP, for that call, after the
\* file at configFilename was written by that call or a later one. No
\* other step sends a signal: not the observers of 'exit', 'error' and
\* 'data', not a builder, not a failed update.
C17_OnlySighupOnlyFromUpdate ==
  [][ signals' # signals =>
        /\ ReactsToWritten
        /\ signals' = Append(signals, Last(signals'))
        /\ Last(signals').sig = "SIGHUP"
        /\ Last(signals').by = Head(micro).call
        /\ finalWriter >= Head(micro).call
        /\ procs' = procs ]_vars

\* One SIGHUP has been sent, by the second update; since then the instance
\* exited and was restarted, and the new one wrote to stderr.
C17_Witness ==
  /\ signals = <<[pid |-> 1, sig |-> "SIGHUP", by |-> 2, sawWriter |-> 2]>>
  /\ Len(procs) = 2
  /\ procs[1].status = "exited"
  /\ log = <<Error("Shadowsocks stderr", <<>>)>>

\* No write has failed so far.
AllWritesSucceeded ==
  /\ \A c \in 1..Len(outcome) : outcome[c] # "rejected"
  /\ \A i \in 1..Len(micro) : ~micro[i].threw

\* The instances update started, and the calls whose reaction has run.
StartedByUpdate == { p \in 1..Len(procs) : procs[p].by # 0 }
Resolved == { c \in 1..Len(outcome) : outcome[c] = "resolved" }

\* C18: as long as no write has failed, whether or not the update calls
\* waited for one another: update has started at most one instance, the
\* first, for a call that resolved; every other resolved call has sent
\* exactly one signal and only those have; each start and signal was
\* issued when the file at configFilename was written by its own call or a
\* later one, hence after the writes of all earlier calls; and once no write
\* is under way the file holds the credentials of the call made last.
C18_UnawaitedUpdatesStartOnce ==
  AllWritesSucceeded =>
    /\ StartedByUpdate \subseteq {1}
    /\ Resolved # {} => (StartedByUpdate = {1} /\ procs[1].by \in Resolved)
    /\ \A c \in Resolved :
         Cardinality({ i \in 1..Len(signals) : signals[i].by = c }) =
           (IF c = procs[1].by THEN 0 ELSE 1)
    /\ \A i \in 1..Len(signals) : signals[i].by \in Resolved
    /\ \A p \in StartedByUpdate : procs[p].sawWriter >= procs[p].by
    /\ \A i \in 1..Len(signals) : signals[i].sawWriter >= signals[i].by
    /\ (wr.phase = "idle" /\ outcome # <<>>) =>
         /\ finalWriter = Len(outcome)
         /\ ItemIds(disk.final) = IdsOf(Accepted(lastGood.keys))

\* Two updates were called one after the other before either reaction ran:
\* the first started the instance when the file already was the second's,
\* the second signalled.
C18_Witness ==
  /\ outcome = <<"resolved", "resolved">>
  /\ Len(procs) = 1
  /\ procs[1].by = 1
  /\ procs[1].sawWriter = 2
  /\ Len(signals) = 1
  /\ signals[1].by = 2
  /\ lastGood.keys = <<keyC, keyA>>
  /\ ItemIds(disk.final) = <<"c", "a">>

\* The supervisor's state: the handle, the instances and the signals sent.
supervisor == <<ssProcess, procs, signals>>

\* C19: while no update has persisted, there is no handle, no instance has
\* been started and no signal has been sent. A builder call, the synchronous
\* part of an update call, a write that throws and the reaction to a failed
\* write leave the handle, the instances and the signals as they were.
C19_NothingBeforeFirstPersistedUpdate ==
  /\ [] ( finalWriter = 0 => (ssProcess = 0 /\ procs = <<>> /\ signals = <<>>) )
  /\ [][ ( \/ configVars' # configVars
           \/ Len(outcome') # Len(outcome)
           \/ WriteFails
           \/ ReactsToFailed ) => supervisor' = supervisor ]_vars

\* The first update failed and started nothing; replay protection was
\* enabled; the second update persisted and was the one to start.
C19_Witness ==
  /\ outcome = <<"rejected", "resolved">>
  /\ isReplayProtectionEnabled
  /\ Len(procs) = 1
  /\ procs[1].by = 2
  /\ signals = <<>>
  /\ finalWriter = 2

\* C20: the handle is that of the instance started last, and every signal
\* sent goes to that instance: never to an instance whose exit has been
\* observed, whose replacement start() has put in ssProcess.
C20_SignalGoesToLatestInstance ==
  /\ [] ( ssProcess = Len(procs) )
  /\ [][ Len(signals') = Len(signals) + 1 =>
            /\ Last(signals').pid = Len(procs)
            /\ procs[Last(signals').pid].status # "exited"
            /\ \A p \in 1..Len(procs) :
                 procs[p].status = "exited" => Last(signals').pid # p ]_vars

\* The first instance exited and was replaced; the update that came next
\* signalled the replacement.
C20_Witness ==
  /\ Len(procs) = 2
  /\ procs[1].status = "exited"
  /\ procs[2].by = 0
  /\ outcome = <<"resolved", "resolved">>
  /\ Len(signals) = 1
  /\ signals[1].pid = 2
  /\ signals[1].by = 2

====
